---- MODULE Spec2Model ----
(***************************************************************************)
(* Model of streamlit_app.py (Harmony Guide): one script run of            *)
(* MusicRecommender.run, the recommendation request, the title extraction, *)
(* the Spotify catalog lookup get_song_info, display_recommendation, and   *)
(* the alternate-link builder _show_alternatives.                          *)
(*                                                                         *)
(* A Python str is a sequence of atoms.  An atom is one character, or a    *)
(* word that contains neither ':' nor a whitespace nor a character the URL *)
(* encoders touch.  Python's None and a missing JSON key are the reserved  *)
(* one-atom sequences None and Missing, which no input string contains.    *)
(***************************************************************************)
EXTENDS Integers, Sequences, FiniteSets, TLC

VARIABLES pc, artist_name, response, recommended_song, results, track_info,
          ui, calls, escaped, alt_args, alt_links

vars == <<pc, artist_name, response, recommended_song, results, track_info,
          ui, calls, escaped, alt_args, alt_links>>

(* ---------------------------- bounds ----------------------------------- *)

MaxArtistLen == 2

MaxFieldLen == 4

MaxTextLen == 2

(* ---------------------------- strings ---------------------------------- *)

None == <<"<None>">>

Missing == <<"<missing>">>

Whitespace == {" ", "\t", "\n"}

RECURSIVE StringsUpTo(_, _)
StringsUpTo(alphabet, n) ==
    IF n = 0 THEN {<<>>}
    ELSE LET shorter == StringsUpTo(alphabet, n - 1)
         IN  shorter \cup {Append(s, c) : s \in shorter, c \in alphabet}

\* bool(s) of an Optional[str]
Truthy(s) == s # None /\ s # <<>>

RECURSIVE lstrip(_)
lstrip(s) ==
    IF s # <<>> /\ Head(s) \in Whitespace THEN lstrip(Tail(s)) ELSE s

RECURSIVE rstrip(_)
rstrip(s) ==
    IF s # <<>> /\ s[Len(s)] \in Whitespace
    THEN rstrip(SubSeq(s, 1, Len(s) - 1)) ELSE s

\* str.strip()
strip(s) == rstrip(lstrip(s))

\* s.startswith(sep)
StartsWith(s, sep) ==
    Len(s) >= Len(sep) /\ SubSeq(s, 1, Len(sep)) = sep

\* str.split(sep) for a non-empty sep: left-to-right scan, the current
\* segment is closed at every match of sep and the scan resumes after it.
RECURSIVE SplitFrom(_, _, _)
SplitFrom(s, sep, cur) ==
    IF s = <<>> THEN <<cur>>
    ELSE IF StartsWith(s, sep)
         THEN <<cur>> \o SplitFrom(SubSeq(s, Len(sep) + 1, Len(s)), sep, <<>>)
         ELSE SplitFrom(Tail(s), sep, Append(cur, Head(s)))

split(s, sep) == SplitFrom(s, sep, <<>>)

Separator == <<":", " ">>

extract_title_first_split(field) ==
    LET parts == split(field, Separator)
    IN  IF Len(parts) > 1 THEN parts[2] ELSE parts[1]

\* result['recommended_song'].split(": ")[-1]
extract_title(field) ==
    LET parts == split(field, Separator) IN parts[Len(parts)]

(* ------------------------ external inputs ------------------------------ *)

\* what the user may type into st.text_input
ArtistAlphabet == {" ", "Q"}

ArtistNames == StringsUpTo(ArtistAlphabet, MaxArtistLen)

FieldAlphabet == {":", " ", "a"}

TopPickYesterday == <<"Top", " ", "Pick", ":", " ", "Yesterday">>

ABC == <<"A", ":", " ", "B", ":", " ", "C">>

\* values of the JSON string field recommended_song
FieldStrings ==
    StringsUpTo(FieldAlphabet, MaxFieldLen) \cup {TopPickYesterday, ABC}

NoResponse == [kind |-> "none", detail |-> <<>>, field |-> Missing]

\* what requests.get(...) can come back with: a transport failure, a
\* non-success status, a 200 whose body is not JSON, a JSON value that is
\* not an object, and a JSON object without / with null / with a string
\* recommended_song
RecResponses ==
    {[kind |-> "ConnectionError", detail |-> <<"Connection refused">>,
      field |-> Missing],
     [kind |-> "HTTPError", detail |-> <<"404 Client Error">>,
      field |-> Missing],
     [kind |-> "HTTPError", detail |-> <<"500 Server Error">>,
      field |-> Missing],
     [kind |-> "not_json", detail |-> <<"Expecting value">>,
      field |-> Missing],
     [kind |-> "non_object", detail |-> <<>>, field |-> Missing]}
    \cup {[kind |-> "object", detail |-> <<>>, field |-> f] :
            f \in {Missing, None} \cup FieldStrings}

PreviewUrl == <<"https://p.scdn.co/mp3-preview/x">>

TrackId == <<"abc123">>

CoverUrl == <<"https://i.scdn.co/image/x">>

TrackUrl == <<"https://open.spotify.com/track/", "abc123">>

\* one item of results['tracks']['items']; a key that is not in the JSON is
\* Missing (has_album, has_images say whether the keys album, album.images
\* exist), a JSON null is None
Tracks ==
    {t \in [preview_url : {Missing, None, PreviewUrl},
            explicit : {Missing, <<"true">>},
            id : {Missing, TrackId},
            has_album : BOOLEAN,
            has_images : BOOLEAN,
            images : {<<>>, <<CoverUrl>>},
            release_date : {Missing, <<"1965-08-06">>},
            spotify_url : {Missing, TrackUrl}] :
        /\ ~t.has_album => (~t.has_images /\ t.release_date = Missing)
        /\ ~t.has_images => t.images = <<>>}

NoResults == [kind |-> "none", items |-> <<>>]

\* what self.sp.search(...) can come back with: an exception of the client
\* (transport, auth, parsing) or a result page of at most one track
CatalogResults ==
    {[kind |-> "SpotifyException", items |-> <<>>],
     [kind |-> "ok", items |-> <<>>]}
    \cup {[kind |-> "ok", items |-> <<t>>] : t \in Tracks}

(* ------------------------ recommendation call -------------------------- *)

\* requests.exceptions.RequestException and its subclasses
RequestExceptions == {"ConnectionError", "HTTPError", "JSONDecodeError"}

\* response.json() on a body that is not JSON raises
\* requests.exceptions.JSONDecodeError (a RequestException) with
\* requests >= 2.27 and a plain ValueError before; the repository pins no
\* version.
JsonErrors == {"JSONDecodeError", "ValueError"}

\* lines 281-284: the exception raised (exc = "" when none) and the title
request_outcomes(resp) ==
    CASE resp.kind \in {"ConnectionError", "HTTPError"} ->
           {[exc |-> resp.kind, detail |-> resp.detail, title |-> None]}
      [] resp.kind = "not_json" ->
           {[exc |-> e, detail |-> resp.detail, title |-> None] :
              e \in JsonErrors}
      [] resp.kind = "non_object" ->
           {[exc |-> "TypeError", detail |-> <<>>, title |-> None]}
      [] resp.field = Missing ->
           {[exc |-> "KeyError", detail |-> <<"'recommended_song'">>,
             title |-> None]}
      [] resp.field = None ->
           {[exc |-> "AttributeError", detail |-> <<>>, title |-> None]}
      [] OTHER ->
           {[exc |-> "", detail |-> <<>>, title |-> extract_title(resp.field)]}

Unavailable == "Recommendation service unavailable: "

UnexpectedFormat == "Unexpected response format from API"

run_except_requests_only(exc, detail) ==
    IF exc \in RequestExceptions
    THEN [caught |-> TRUE,
          shown |-> <<[widget |-> "st.error", arg |-> <<Unavailable>> \o detail]>>]
    ELSE [caught |-> FALSE, shown |-> <<>>]

\* the two except clauses of run, lines 287-290
run_except(exc, detail) ==
    IF exc \in RequestExceptions
    THEN [caught |-> TRUE,
          shown |-> <<[widget |-> "st.error", arg |-> <<Unavailable>> \o detail]>>]
    ELSE IF exc = "KeyError"
    THEN [caught |-> TRUE,
          shown |-> <<[widget |-> "st.error", arg |-> <<UnexpectedFormat>>]>>]
    ELSE [caught |-> FALSE, shown |-> <<>>]

(* ------------------------ catalog lookup ------------------------------- *)

NoneInfo == [is_none |-> TRUE]

LookupError == "Track lookup error: "

\* the first KeyError of the dict display, lines 48-55, in evaluation
\* order; "" when every subscript succeeds
first_key_error(t) ==
    IF t.id = Missing THEN "'id'"
    ELSE IF ~t.has_album THEN "'album'"
    ELSE IF ~t.has_images THEN "'images'"
    ELSE IF t.spotify_url = Missing THEN "'external_urls'"
    ELSE ""

\* the dict display of lines 48-55
track_record(t) ==
    [preview_url |-> IF t.preview_url = Missing THEN None ELSE t.preview_url,
     explicit |-> (t.explicit = <<"true">>),
     spotify_id |-> t.id,
     album_cover |-> IF t.images # <<>> THEN t.images[1] ELSE None,
     release_date |-> IF t.release_date = Missing THEN <<>> ELSE t.release_date,
     spotify_url |-> t.spotify_url]

get_song_info_no_except(res) ==
    IF res.kind = "SpotifyException"
    THEN [ret |-> NoneInfo, shown |-> <<>>, raised |-> "SpotifyException"]
    ELSE IF res.items = <<>>
    THEN [ret |-> NoneInfo, shown |-> <<>>, raised |-> ""]
    ELSE IF first_key_error(res.items[1]) # ""
    THEN [ret |-> NoneInfo, shown |-> <<>>, raised |-> "KeyError"]
    ELSE [ret |-> track_record(res.items[1]), shown |-> <<>>, raised |-> ""]

\* get_song_info, lines 37-59: the returned value, what it shows with
\* st.error, and the exception that leaves it ("" when none)
get_song_info(res) ==
    IF res.kind = "SpotifyException"
    THEN [ret |-> NoneInfo,
          shown |-> <<[widget |-> "st.error",
                       arg |-> <<LookupError, "SpotifyException">>]>>,
          raised |-> ""]
    ELSE IF res.items = <<>>
    THEN [ret |-> NoneInfo, shown |-> <<>>, raised |-> ""]
    ELSE IF first_key_error(res.items[1]) # ""
    THEN [ret |-> NoneInfo,
          shown |-> <<[widget |-> "st.error",
                       arg |-> <<LookupError, first_key_error(res.items[1])>>]>>,
          raised |-> ""]
    ELSE [ret |-> track_record(res.items[1]), shown |-> <<>>, raised |-> ""]

(* ------------------------ display -------------------------------------- *)

Placeholder == <<"https://via.placeholder.com/400x400.png?text=No+Album+Cover">>

\* lines 66-107 for a track_info that is a dict: st.image, then st.audio or
\* the "Open in Spotify" button, then the title / artist / explicit block
render_track(info, song_name, artist) ==
    << [widget |-> "st.image",
        arg |-> IF Truthy(info.album_cover) THEN info.album_cover
                ELSE Placeholder],
       IF Truthy(info.preview_url)
       THEN [widget |-> "st.audio", arg |-> info.preview_url]
       ELSE [widget |-> "open_in_spotify", arg |-> info.spotify_url],
       [widget |-> "track_text",
        arg |-> song_name \o <<" by ">> \o artist
                \o (IF info.explicit THEN <<"Explicit Content">> ELSE <<>>)] >>

\* lines 66-107: what is rendered and the exception that leaves
\* display_recommendation.  With track_info None, line 70 takes the
\* conditional's else branch, and the caption argument of st.image on line
\* 73, track_info.get('track_name', ''), is evaluated on None before
\* st.image is called.
display_outcome(info, song_name, artist) ==
    IF info = NoneInfo
    THEN [shown |-> <<>>, raised |-> "AttributeError"]
    ELSE [shown |-> render_track(info, song_name, artist), raised |-> ""]

(* ------------------------ one script run ------------------------------- *)

Init ==
    /\ pc = "idle"
    /\ artist_name = <<>>
    /\ response = NoResponse
    /\ recommended_song = None
    /\ results = NoResults
    /\ track_info = NoneInfo
    /\ ui = <<>>
    /\ calls = <<>>
    /\ escaped = ""
    /\ alt_args = [song_name |-> <<>>, artist_name |-> <<>>, spotify_id |-> None]
    /\ alt_links = <<>>

Click_no_strip(a) ==
    /\ pc = "idle"
    /\ artist_name' = a
    /\ IF a = <<>>
       THEN /\ ui' = Append(ui, [widget |-> "st.warning",
                                 arg |-> <<"Please enter an artist name">>])
            /\ pc' = "done"
       ELSE /\ pc' = "request"
            /\ ui' = ui
    /\ UNCHANGED <<response, recommended_song, results, track_info, calls,
                   escaped, alt_args, alt_links>>

\* lines 273-278: the button is clicked with a typed into the text input
Click(a) ==
    /\ pc = "idle"
    /\ artist_name' = a
    /\ IF strip(a) = <<>>
       THEN /\ ui' = Append(ui, [widget |-> "st.warning",
                                 arg |-> <<"Please enter an artist name">>])
            /\ pc' = "done"
       ELSE /\ pc' = "request"
            /\ ui' = ui
    /\ UNCHANGED <<response, recommended_song, results, track_info, calls,
                   escaped, alt_args, alt_links>>

RecRequest_retry(resp) ==
    /\ pc = "request"
    /\ calls' = Append(calls, "recommend")
    /\ response' = resp
    /\ \E o \in request_outcomes(resp) :
         IF o.exc = ""
         THEN /\ recommended_song' = o.title
              /\ pc' = "lookup"
              /\ UNCHANGED <<ui, escaped>>
         ELSE /\ recommended_song' = recommended_song
              /\ pc' = IF Len(calls) = 0 THEN "request" ELSE "done"
              /\ ui' = ui \o run_except(o.exc, o.detail).shown
              /\ escaped' = IF run_except(o.exc, o.detail).caught
                            THEN "" ELSE o.exc
    /\ UNCHANGED <<artist_name, results, track_info, alt_args, alt_links>>

\* lines 280-284 and 287-290: the one GET to the recommendation service,
\* the title extraction, and the except clauses for what they raise
RecRequest(resp) ==
    /\ pc = "request"
    /\ calls' = Append(calls, "recommend")
    /\ response' = resp
    /\ \E o \in request_outcomes(resp) :
         IF o.exc = ""
         THEN /\ recommended_song' = o.title
              /\ pc' = "lookup"
              /\ UNCHANGED <<ui, escaped>>
         ELSE /\ recommended_song' = recommended_song
              /\ pc' = "done"
              /\ ui' = ui \o run_except(o.exc, o.detail).shown
              /\ escaped' = IF run_except(o.exc, o.detail).caught
                            THEN "" ELSE o.exc
    /\ UNCHANGED <<artist_name, results, track_info, alt_args, alt_links>>

\* lines 285, 63-64: display_recommendation starts with the one catalog
\* search of get_song_info; an exception leaving it would reach the except
\* clauses of run
CatalogSearch(res) ==
    /\ pc = "lookup"
    /\ calls' = Append(calls, "search")
    /\ results' = res
    /\ LET r == get_song_info(res)
       IN  IF r.raised = ""
           THEN /\ track_info' = r.ret
                /\ ui' = ui \o r.shown
                /\ pc' = "render"
                /\ escaped' = escaped
           ELSE /\ track_info' = track_info
                /\ ui' = ui \o r.shown \o run_except(r.raised, <<>>).shown
                /\ pc' = "done"
                /\ escaped' = IF run_except(r.raised, <<>>).caught
                              THEN "" ELSE r.raised
    /\ UNCHANGED <<artist_name, response, recommended_song, alt_args,
                   alt_links>>

\* lines 66-107 and 287-290: the rest of display_recommendation; run
\* returns after it (no call of _show_alternatives follows)
Render ==
    /\ pc = "render"
    /\ LET d == display_outcome(track_info, recommended_song, artist_name)
       IN  /\ ui' = ui \o d.shown \o run_except(d.raised, <<>>).shown
           /\ escaped' = IF d.raised = "" \/ run_except(d.raised, <<>>).caught
                         THEN "" ELSE d.raised
    /\ pc' = "done"
    /\ UNCHANGED <<artist_name, response, recommended_song, results,
                   track_info, calls, alt_args, alt_links>>

\* lines 293-295: the next interaction reruns the script from the top with
\* a fresh MusicRecommender
Rerun ==
    /\ pc = "done"
    /\ pc' = "idle"
    /\ artist_name' = <<>>
    /\ response' = NoResponse
    /\ recommended_song' = None
    /\ results' = NoResults
    /\ track_info' = NoneInfo
    /\ ui' = <<>>
    /\ calls' = <<>>
    /\ escaped' = ""
    /\ UNCHANGED <<alt_args, alt_links>>

Next ==
    \/ \E a \in ArtistNames : Click(a)
    \/ \E resp \in RecResponses : RecRequest(resp)
    \/ \E res \in CatalogResults : CatalogSearch(res)
    \/ Render
    \/ Rerun

Spec == Init /\ [][Next]_vars

TypeOK ==
    /\ pc \in {"idle", "request", "lookup", "render", "done"}
    /\ Len(calls) <= 2

(* ------------------------ alternate links ------------------------------ *)

\* urllib.parse.quote on one atom: '/' is safe, a space becomes %20
quote_atom(c) ==
    CASE c = " " -> "%20"
      [] c = "+" -> "%2B"
      [] OTHER -> c

\* urllib.parse.quote_plus on one atom: a space becomes '+', '/' is
\* percent-encoded
quote_plus_atom(c) ==
    CASE c = " " -> "+"
      [] c = "+" -> "%2B"
      [] c = "/" -> "%2F"
      [] OTHER -> c

quote(s) == [i \in 1..Len(s) |-> quote_atom(s[i])]

quote_plus(s) == [i \in 1..Len(s) |-> quote_plus_atom(s[i])]

ServiceNames == <<"Spotify Direct", "YouTube Music", "SoundCloud", "Deezer">>

show_alternatives_search_only(song_name, artist, spotify_id) ==
    LET base_query == song_name \o <<" ">> \o artist
    IN  << [service |-> "Spotify Direct",
            url |-> <<"https://open.spotify.com/search/">> \o quote(base_query)],
           [service |-> "YouTube Music",
            url |-> <<"https://music.youtube.com/search?q=">>
                    \o quote_plus(base_query)],
           [service |-> "SoundCloud",
            url |-> <<"https://soundcloud.com/search?q=">>
                    \o quote_plus(base_query)],
           [service |-> "Deezer",
            url |-> <<"https://www.deezer.com/search/">> \o quote(base_query)] >>

\* _show_alternatives, lines 109-120 and 138: the (service, url) pairs in
\* the insertion order of the dict urls
show_alternatives(song_name, artist, spotify_id) ==
    LET base_query == song_name \o <<" ">> \o artist
    IN  << [service |-> "Spotify Direct",
            url |-> IF Truthy(spotify_id)
                    THEN <<"https://open.spotify.com/track/">> \o spotify_id
                    ELSE <<"https://open.spotify.com/search/">>
                         \o quote(base_query)],
           [service |-> "YouTube Music",
            url |-> <<"https://music.youtube.com/search?q=">>
                    \o quote_plus(base_query)],
           [service |-> "SoundCloud",
            url |-> <<"https://soundcloud.com/search?q=">>
                    \o quote_plus(base_query)],
           [service |-> "Deezer",
            url |-> <<"https://www.deezer.com/search/">> \o quote(base_query)] >>

TextAlphabet == {"a", " ", "/", "+"}

Texts == StringsUpTo(TextAlphabet, MaxTextLen) \cup {<<"Yesterday">>, <<"The", " ", "Beatles">>}

SpotifyIds == {None, <<>>, TrackId, <<"7", "x">>}

LinkArgs == [song_name : Texts, artist_name : Texts, spotify_id : SpotifyIds]

\* a call _show_alternatives(song_name, artist_name, spotify_id) with
\* arbitrary arguments
InitLinks ==
    /\ pc = "links"
    /\ artist_name = <<>>
    /\ response = NoResponse
    /\ recommended_song = None
    /\ results = NoResults
    /\ track_info = NoneInfo
    /\ ui = <<>>
    /\ calls = <<>>
    /\ escaped = ""
    /\ alt_args \in LinkArgs
    /\ alt_links = <<>>

ShowAlternatives ==
    /\ pc = "links"
    /\ alt_links = <<>>
    /\ alt_links' = show_alternatives(alt_args.song_name, alt_args.artist_name,
                                      alt_args.spotify_id)
    /\ UNCHANGED <<pc, artist_name, response, recommended_song, results,
                   track_info, ui, calls, escaped, alt_args>>

NextLinks == ShowAlternatives

SpecLinks == InitLinks /\ [][NextLinks]_vars

(* ------------------------ properties ----------------------------------- *)

HasWidget(w) == \E i \in 1..Len(ui) : ui[i].widget = w

Shows(w, a) == \E i \in 1..Len(ui) : ui[i] = [widget |-> w, arg |-> a]

HasLookupError ==
    \E i \in 1..Len(ui) :
        ui[i].widget = "st.error" /\ Head(ui[i].arg) = LookupError

IsBlank(s) == \A i \in 1..Len(s) : s[i] \in Whitespace

TrackText == recommended_song \o <<" by ">> \o artist_name

\* C1: when the recommendation call succeeded and get_song_info returned
\* None (zero matches or a caught lookup failure), the click ends with the
\* fallback presentation (placeholder cover, no preview, title/artist text)
\* and no exception has escaped run.
C1_FallbackDisplayed ==
    (pc = "done" /\ recommended_song # None /\ Len(calls) = 2
       /\ track_info = NoneInfo)
    => /\ escaped = ""
       /\ Shows("st.image", Placeholder)
       /\ ~HasWidget("st.audio")
       /\ Shows("track_text", TrackText)

\* C2: for a non-blank artist and any response of the recommendation
\* service, the recommendation step ends either with a non-empty title or
\* with a classified error (service unavailable / unexpected format) that
\* was handled; never with an empty title, never with an escaped exception.
C2_TitleOrClassifiedError ==
    /\ pc = "lookup" => Truthy(recommended_song)
    /\ (pc = "done" /\ calls = <<"recommend">>)
       => /\ escaped = ""
          /\ recommended_song = None
          /\ \/ \E i \in 1..Len(ui) : ui[i].widget = "st.error"
                                      /\ Head(ui[i].arg) = Unavailable
             \/ Shows("st.error", <<UnexpectedFormat>>)

\* C3: within one click the network calls are one request to the
\* recommendation service followed by at most one catalog search; the
\* search is issued only once a title has been extracted, a non-blank click
\* that has ended has sent its one request, and no call is repeated.
C3_OneRequestThenAtMostOneSearch ==
    /\ calls \in {<<>>, <<"recommend">>, <<"recommend", "search">>}
    /\ Len(calls) = 2 => recommended_song # None
    /\ pc \in {"lookup", "render"} => recommended_song # None
    /\ (pc = "done" /\ ~IsBlank(artist_name)) => Len(calls) >= 1
    /\ pc = "request" => calls = <<>>
    /\ pc = "lookup" => calls = <<"recommend">>

C3_Witness ==
    pc = "done" /\ ~IsBlank(artist_name) /\ calls = <<"recommend", "search">>

\* C4: a click with an empty or whitespace-only artist name makes no network
\* call and produces exactly the warning.
C4_BlankArtistWarnsWithoutCalls ==
    (pc # "idle" /\ IsBlank(artist_name))
    => /\ pc = "done"
       /\ calls = <<>>
       /\ escaped = ""
       /\ ui = <<[widget |-> "st.warning",
                  arg |-> <<"Please enter an artist name">>]>>

C4_Witness ==
    /\ pc = "done" /\ artist_name # <<>> /\ IsBlank(artist_name)
    /\ HasWidget("st.warning") /\ calls = <<>>

TrackInfoKeys ==
    {"preview_url", "explicit", "spotify_id", "album_cover", "release_date",
     "spotify_url"}

LookupFailed ==
    \/ results.kind = "SpotifyException"
    \/ /\ results.kind = "ok" /\ results.items # <<>>
       /\ \/ results.items[1].id = Missing
          \/ ~results.items[1].has_album
          \/ results.items[1].spotify_url = Missing

\* C6: once the catalog search has been made, get_song_info has returned
\* (the run is in the rendering part), its value is None or a record with all
\* six fields, and a transport or parsing failure gave None together with a
\* "Track lookup error" message; no exception of the lookup reached run.
C6_LookupNeverRaises ==
    results # NoResults
    => /\ pc \in {"render", "done"}
       /\ track_info = NoneInfo \/ DOMAIN track_info = TrackInfoKeys
       /\ escaped \notin {"SpotifyException", "KeyError"}
       /\ ~Shows("st.error", <<UnexpectedFormat>>)
       /\ LookupFailed => (track_info = NoneInfo /\ HasLookupError)

C6_Witness ==
    /\ pc = "render" /\ results.kind = "SpotifyException"
    /\ track_info = NoneInfo /\ HasLookupError /\ escaped = ""

NoImagesMatch ==
    /\ results.kind = "ok" /\ results.items # <<>>
    /\ results.items[1].id # Missing
    /\ results.items[1].has_album
    /\ results.items[1].spotify_url # Missing
    /\ ~results.items[1].has_images \/ results.items[1].images = <<>>

\* C7: a match that has its id, album and canonical URL but whose album has
\* no images (key missing or empty list) gives a present record with cover
\* art None and the other fields populated, and no lookup error is shown.
C7_NoImagesGivesRecordWithoutCover ==
    NoImagesMatch
    => /\ track_info # NoneInfo
       /\ ~HasLookupError
       /\ track_info.album_cover = None
       /\ track_info.spotify_id = results.items[1].id
       /\ track_info.spotify_url = results.items[1].spotify_url

\* C8: after a click whose recommendation call succeeded, the four
\* alternate-service links have been rendered.
C8_AlternativesShown ==
    (pc = "done" /\ recommended_song # None) => Len(alt_links) = 4

AfterLastSeparator(s) ==
    LET occ == {i \in 1..(Len(s) - 1) : s[i] = ":" /\ s[i + 1] = " "}
    IN  IF occ = {} THEN s
        ELSE LET m == CHOOSE i \in occ : \A j \in occ : j <= i
             IN  SubSeq(s, m + 2, Len(s))

\* C9: for a string recommended_song field the extracted title is the text
\* after the last ": " (the whole string when there is none); "Top Pick:
\* Yesterday" gives "Yesterday" and "A: B: C" gives "C".
C9_TitleIsSuffixAfterLastSeparator ==
    (response.kind = "object" /\ response.field \notin {Missing, None})
    => /\ recommended_song = AfterLastSeparator(response.field)
       /\ response.field = TopPickYesterday => recommended_song = <<"Yesterday">>
       /\ response.field = ABC => recommended_song = <<"C">>

C9_Witness ==
    /\ pc = "lookup" /\ response.kind = "object" /\ response.field = ABC
    /\ recommended_song = <<"C">>

unquote(s) ==
    [i \in 1..Len(s) |->
        CASE s[i] = "%20" -> " " [] s[i] = "%2B" -> "+" [] s[i] = "%2F" -> "/"
          [] OTHER -> s[i]]

unquote_plus(s) ==
    [i \in 1..Len(s) |->
        CASE s[i] = "+" -> " " [] s[i] = "%20" -> " " [] s[i] = "%2B" -> "+"
          [] s[i] = "%2F" -> "/" [] OTHER -> s[i]]

BaseQuery == alt_args.song_name \o <<" ">> \o alt_args.artist_name

\* C10: the link builder gives exactly four entries in the order Spotify,
\* YouTube Music, SoundCloud, Deezer; the first is
\* https://open.spotify.com/track/<id> when an id is given (None and the
\* empty string count as no id) and otherwise a Spotify search URL whose
\* query decodes to "<title> <artist>"; the other three are search URLs of
\* their service whose query decodes to the same text.
C10_FourLinksInFixedOrder ==
    alt_links # <<>>
    => /\ Len(alt_links) = 4
       /\ [i \in 1..4 |-> alt_links[i].service] = ServiceNames
       /\ IF alt_args.spotify_id # None /\ alt_args.spotify_id # <<>>
          THEN alt_links[1].url
                 = <<"https://open.spotify.com/track/">> \o alt_args.spotify_id
          ELSE /\ Head(alt_links[1].url) = "https://open.spotify.com/search/"
               /\ unquote(Tail(alt_links[1].url)) = BaseQuery
       /\ Head(alt_links[2].url) = "https://music.youtube.com/search?q="
       /\ unquote_plus(Tail(alt_links[2].url)) = BaseQuery
       /\ Head(alt_links[3].url) = "https://soundcloud.com/search?q="
       /\ unquote_plus(Tail(alt_links[3].url)) = BaseQuery
       /\ Head(alt_links[4].url) = "https://www.deezer.com/search/"
       /\ unquote(Tail(alt_links[4].url)) = BaseQuery

C10_Witness ==
    /\ alt_links # <<>>
    /\ alt_args.spotify_id = TrackId
    /\ alt_args.song_name = <<"Yesterday">>
    /\ alt_links[1].url = <<"https://open.spotify.com/track/", "abc123">>

====
